---- MODULE Spec2Model ----
(***************************************************************************)
(* ppt2video: one conversion run, from the entry point (the command line   *)
(* run_full_process or the GUI WorkerThread.run) through                   *)
(* process_presentation (export, notes, alignment, narration synthesis)    *)
(* and create_video_from_data (segments, concatenation, subtitles,         *)
(* burn-in, delivery) to the final clean-up.                               *)
(*                                                                         *)
(* Durations are in milliseconds (0.01 s = 10).  Python's None is          *)
(* NoDuration for a duration and NoPath for a path.  A path is the ordinal *)
(* in its file name (slide_<n>.png, segment_<n>.mp3).  External tools      *)
(* (PowerPoint, LibreOffice, python-pptx, Edge TTS, ffprobe, ffmpeg,       *)
(* Whisper, the file system) are the environment: each call draws its      *)
(* outcome from the outcomes the code distinguishes.                       *)
(***************************************************************************)
EXTENDS Integers, Sequences, FiniteSets, TLC

VARIABLES
    entry,                  \* "cli" (run_full_process), "gui" (WorkerThread.run), "direct"
    pc,                     \* position of the run
    cleanup_temp,           \* CLEANUP_TEMP_DIR / WorkerThread.cleanup_temp
    default_slide_duration, \* DEFAULT_SLIDE_DURATION (config value), ms
    output_file,            \* file at final_video_path: "none", "stale", "partial", "base", "subs"
    temp_dir_exists,        \* the run's temp_run_dir is on disk
    temp_dir_created,       \* history: temp_run_dir.mkdir succeeded in this run
    caller_temp_run_dir,    \* the caller's temp_run_dir variable is not None
    process_result,         \* what process_presentation returned
    exported_images,        \* history: the list the accepted exporter returned
    extracted_notes,        \* history: the list extract_speaker_notes returned
    image_paths,            \* process_presentation's image_paths
    notes_list,             \* process_presentation's notes_list
    image_dir,              \* the image directory: file name -> what the file holds
    export_log,             \* history: exporter_used, what each exporter wrote
    audio_results,          \* generate_audio_segments' audio_results
    audio_files,            \* audio directory: ordinal -> "none", "stub", "ok"
    tts_calls,              \* history: slides for which the TTS backend was called
    tts_failed,             \* history: slides whose TTS call failed or raised
    processed_data,         \* the slide records (final_data / processed_data)
    seg_index,              \* create_video_from_data's loop position
    segments,               \* built segments: <<[slide, duration, audio]>>
    segment_files,          \* create_video_from_data's segment_files (slide ordinals)
    base_video,             \* base_video_no_subs.mp4 exists
    subtitles,              \* outcome of the subtitle stage
    moved,                  \* outcome of the final shutil.move
    synthesis_success,      \* create_video_from_data's result
    finished_signal,        \* GUI: the finished_signal emissions, in order
    outcome,                \* what the run reported: "none", "success", "failure"
    fatal,                  \* history: the fatal event that occurred, or "none"
    after_fatal,            \* history: stage operations executed after the fatal event
    stages_run,             \* history: stage operations executed in this run
    env_failed,             \* history: some external operation failed in this run
    stale_at_start,         \* history: a file existed at the output path at the start
    unlink_failed,          \* history: deleting the stale output file failed
    rmtree_failed,          \* history: shutil.rmtree of the temporary directory raised
    video_concat_list,      \* video_concat_list.txt as written: segment ordinals
    audio_concat_list,      \* audio_concat_list.txt as written: audio ordinals
    is_running,             \* WorkerThread._is_running
    steps_at_stop,          \* history: slide steps completed when stop() was called
    segment_dir,            \* segments directory: ordinal -> the files of segment_<n>.mp4
    tts_unlinked,           \* history: slides whose audio file was removed after a failed TTS call
    srt_file,               \* subtitles.srt as generate_subtitles wrote it: "none", "tiny", "no_text", "text"
    run_ids,                \* every process_presentation invocation: its run_id, or NoRunId
    run_state,              \* every invocation: "idle", "working", "returned"
    temp_dirs,              \* the run_ids whose temp_<stem>_<run_id> directory is on disk
    found_existing,         \* history: invocations whose mkdir found the directory present
    hung,                   \* the external tool call that has not returned, or "none"
    start_button,           \* MainWindow.start_button is enabled
    dialogs,                \* the modal dialogs open in the main thread, innermost last
    worker_thread,          \* MainWindow.worker_thread: a thread or NoThread
    threads,                \* every WorkerThread: "unborn", "running", "emitted", "finished"
    signals                 \* finished_signal emissions queued for the main thread

run == <<entry, pc, cleanup_temp, default_slide_duration, output_file,
         temp_dir_exists, temp_dir_created, caller_temp_run_dir, process_result,
         exported_images, extracted_notes, image_paths, notes_list, image_dir,
         export_log, audio_results, audio_files, tts_calls, tts_failed, processed_data,
         seg_index, segments, segment_files, base_video, subtitles, moved,
         synthesis_success, finished_signal, outcome, fatal, after_fatal,
         stages_run, env_failed, stale_at_start, unlink_failed,
         rmtree_failed, video_concat_list, audio_concat_list, is_running,
         steps_at_stop, hung, segment_dir,
         tts_unlinked,
         srt_file,
         run_ids,
         run_state,
         temp_dirs,
         found_existing>>

\* the state of the main window and its worker threads
window == <<start_button, dialogs, worker_thread, threads, signals>>

vars == <<run, window>>

\* the variables no step of the run itself assigns
outside == <<is_running, steps_at_stop, hung, window>>

----------------------------------------------------------------------------
(* Bounds and program constants *)

MaxSlides == 2

MaxWorkers == 3

\* invocations of process_presentation on one output directory and one deck
MaxRuns == 3

\* the values uuid.uuid4().hex[:8] can take
MaxRunIds == 3

Runs == 1..MaxRuns

RunIds == 1..MaxRunIds

\* no run_id drawn yet
NoRunId == 0

\* self.worker_thread = None
NoThread == 0

NoDuration == -1

NoPath == 0

\* the negligible threshold 0.01 s
NEGLIGIBLE == 10

Ordinals == 1..MaxSlides

\* config.getfloat('Video', 'default_slide_duration', fallback=3.0): the
\* fallback, and the values a config file is given in a direct call
ConfigFallbackDuration == 3000

DefaultDurations == {NEGLIGIBLE, ConfigFallbackDuration}

\* what ffprobe reports for a file: no usable metadata (the call failed, timed
\* out or printed no duration), or a duration in ms
ProbeOutputs ==
    {[parsed |-> FALSE, value |-> 0]}
        \cup {[parsed |-> TRUE, value |-> v] : v \in {-5, 0, 5, NEGLIGIBLE, 2500}}

\* states of a file on disk: missing, at most 100 bytes, more than 100 bytes
FileStates == {"none", "stub", "ok"}

\* raw notes text of a slide: none, whitespace only, some text
NoteTexts == {"", " ", "Hello"}

\* File names of the image directory: n > 0 is slide_<n>.png, -p is the file
\* pdf2image writes for page p (slide_-<p zero-padded>.png)
RawNames == {-p : p \in Ordinals}

ImageNames == 1..(2 * MaxSlides)

FileNames == RawNames \cup ImageNames

\* what a file of the image directory holds: nothing (no such file), or the
\* rendering of a slide by PowerPoint ("ppt") or of a page by LibreOffice ("lo")
NoImage == [by |-> "none", page |-> 0]

Rendered(by, page) == [by |-> by, page |-> page]

EmptyImageDir == [n \in FileNames |-> NoImage]

\* the files of one segment: what is at segment_<n>.mp4 ("none", "partial",
\* "ok") and whether segment_<n>.temp_video.mp4 exists
NoSegment == [target |-> "none", temp |-> FALSE]

EmptySegmentDir == [n \in Ordinals |-> NoSegment]

Min(a, b) == IF a < b THEN a ELSE b

Max(a, b) == IF a < b THEN b ELSE a

Range(s) == {s[i] : i \in 1..Len(s)}

\* the ascending sequence of the members of a set of ordinals
RECURSIVE Ascending(_)
Ascending(S) ==
    IF S = {} THEN <<>>
    ELSE LET m == CHOOSE x \in S : \A y \in S : x <= y
         IN <<m>> \o Ascending(S \ {m})

\* lst[:n]
Prefix(lst, n) == SubSeq(lst, 1, Min(n, Len(lst)))

\* all sequences over S of length 0..n
SeqsUpTo(S, n) == UNION {[1..k -> S] : k \in 0..n}

----------------------------------------------------------------------------
(* History bookkeeping shared by the stage actions *)

\* the stage operations ops are executed now
Ran(ops) ==
    /\ stages_run' = stages_run \cup ops
    /\ after_fatal' = IF fatal # "none" THEN after_fatal \cup ops ELSE after_fatal

----------------------------------------------------------------------------
(* Pure helpers of ppt_processor.py *)

\* get_audio_duration: None unless ffprobe gave a duration >= 0 that is not
\* below 0.01 s
get_audio_durationKeepsShort(file, probe) ==
    IF file = "none" THEN NoDuration
    ELSE IF probe.parsed /\ probe.value >= 0 THEN probe.value
         ELSE NoDuration

get_audio_duration(file, probe) ==
    IF file = "none" THEN NoDuration
    ELSE IF probe.parsed /\ probe.value >= 0
         THEN IF probe.value < NEGLIGIBLE THEN NoDuration ELSE probe.value
         ELSE NoDuration

\* note_text = text_frame.text.strip() when the frame has text, else ""
StripNote(text) == IF text = " " THEN "" ELSE text

\* not text or text.isspace()
IsBlank(text) == text = "" \/ text = " "

\* what the TTS backend call (_synthesize_edge_audio under run_async_in_sync)
\* can end in: it returns or raises (connection error, timeout, any other
\* exception), and leaves no file, a file of at most 100 bytes or a larger file
\* at output_path
TtsOutcomes == [raised : BOOLEAN, file : FileStates]

\* line 210: output_path.exists() and output_path.stat().st_size > 100
TtsSuccess(tts) == ~tts.raised /\ tts.file = "ok"

\* generate_segment_audio lines 201-237 once the backend call is over: True with
\* the file kept, or False with the file, if there is one, unlinked
generate_segment_audioKeepsFile(tts) ==
    [result |-> TtsSuccess(tts), file |-> tts.file, unlinked |-> FALSE]

generate_segment_audio(tts) ==
    IF TtsSuccess(tts)
    THEN [result |-> TRUE, file |-> tts.file, unlinked |-> FALSE]
    ELSE [result |-> FALSE, file |-> "none", unlinked |-> tts.file # "none"]

\* the (result_path, duration_sec) tuple of one slide whose notes are not blank
SegmentAudioWrongPath(n, success, duration_sec) ==
    IF success
    THEN IF duration_sec # NoDuration
         THEN IF duration_sec > NEGLIGIBLE
              THEN <<n, duration_sec>>
              ELSE <<n, 0>>
         ELSE <<n, NoDuration>>
    ELSE <<n, NoDuration>>

SegmentAudioResult(n, success, duration_sec) ==
    IF success
    THEN IF duration_sec # NoDuration
         THEN IF duration_sec > NEGLIGIBLE
              THEN <<n, duration_sec>>
              ELSE <<n, 0>>
         ELSE <<n, NoDuration>>
    ELSE <<NoPath, NoDuration>>

\* min_count = min(num_images, num_notes)
MinCountAsMax(num_images, num_notes) == Max(num_images, num_notes)

MinCount(num_images, num_notes) == Min(num_images, num_notes)

\* final_audio_duration of a record
FinalAudioDuration(audio_duration_raw) ==
    IF audio_duration_raw # NoDuration
    THEN IF audio_duration_raw > NEGLIGIBLE THEN audio_duration_raw ELSE 0
    ELSE 0

\* slide_data for index i (1-based here)
SlideData(i, images, notes, results) ==
    [slide_number   |-> i,
     image_path     |-> IF i <= Len(images) THEN images[i] ELSE NoPath,
     notes          |-> notes[i],
     audio_path     |-> IF i <= Len(results) THEN results[i][1] ELSE NoPath,
     audio_duration |-> FinalAudioDuration(
                            IF i <= Len(results) THEN results[i][2] ELSE NoDuration)]

\* the voice_id the entry point passes to process_presentation
VoiceIdPassed(e) == IF e = "cli" THEN "None" ELSE "zh-CN-XiaoxiaoNeural"

\* final_video_filename of the entry point
FinalVideoFilename(e) == IF e = "cli" THEN "_final_video.mp4" ELSE "_gui_.mp4"

----------------------------------------------------------------------------
(* The caller's failure paths *)

\* after the attempt to delete an existing output file
AfterUnlinkIgnored(unlink_ok) == "process"

AfterUnlink(unlink_ok) == IF unlink_ok THEN "process" ELSE "abort"

\* the run stops with a failure before create_video_from_data was called:
\* run_full_process logs and returns; WorkerThread.run raises into its except
\* clause, which emits finished_signal(False, msg), and its finally clause only
\* logs when success is False
ReportFailure ==
    /\ outcome' = "failure"
    /\ finished_signal' = IF entry = "gui" THEN Append(finished_signal, FALSE)
                          ELSE finished_signal
    /\ pc' = "done"

\* whether the failure path of the caller removes the temporary directory:
\* run_full_process does when process_presentation failed and CLEANUP_TEMP_DIR is
\* set; WorkerThread.run never does
RemovesTempOnProcessFailureGuiToo(e, has_dir, on_disk, cleanup) ==
    has_dir /\ on_disk /\ cleanup

RemovesTempOnProcessFailure(e, has_dir, on_disk, cleanup) ==
    e = "cli" /\ has_dir /\ on_disk /\ cleanup

----------------------------------------------------------------------------
(* Initial states: a run entered from the command line or from the GUI *)

\* nothing was exported yet
NoExport ==
    [slides |-> 0, exporter_used |-> "None", ppt_written |-> {}, lo_pages |-> 0]

Init ==
    /\ entry \in {"cli", "gui"}
    /\ pc = "start"
    /\ cleanup_temp \in BOOLEAN
    /\ default_slide_duration = ConfigFallbackDuration
    /\ output_file \in {"none", "stale"}
    /\ stale_at_start = (output_file = "stale")
    /\ temp_dir_exists = FALSE
    /\ temp_dir_created = FALSE
    /\ caller_temp_run_dir = FALSE
    /\ process_result = "pending"
    /\ exported_images = <<>>
    /\ extracted_notes = <<>>
    /\ image_paths = <<>>
    /\ notes_list = <<>>
    /\ image_dir = EmptyImageDir
    /\ export_log = NoExport
    /\ audio_results = <<>>
    /\ audio_files = [n \in Ordinals |-> "none"]
    /\ tts_calls = {}
    /\ tts_failed = {}
    /\ processed_data = <<>>
    /\ seg_index = 1
    /\ segments = <<>>
    /\ segment_files = <<>>
    /\ base_video = FALSE
    /\ subtitles = "none"
    /\ moved = "none"
    /\ synthesis_success = "none"
    /\ finished_signal = <<>>
    /\ outcome = "none"
    /\ fatal = "none"
    /\ after_fatal = {}
    /\ stages_run = {}
    /\ env_failed = FALSE
    /\ unlink_failed = FALSE
    /\ rmtree_failed = FALSE
    /\ video_concat_list = <<>>
    /\ audio_concat_list = <<>>
    /\ is_running = TRUE
    /\ steps_at_stop = 0
    /\ hung = "none"
    /\ found_existing = {}
    /\ temp_dirs = {}
    /\ run_state = [r \in Runs |-> "idle"]
    /\ run_ids = [r \in Runs |-> NoRunId]
    /\ srt_file = "none"
    /\ tts_unlinked = {}
    /\ segment_dir = EmptySegmentDir
    /\ start_button = TRUE
    /\ dialogs = <<>>
    /\ worker_thread = NoThread
    /\ threads = [t \in 1..MaxWorkers |-> "unborn"]
    /\ signals = <<>>

----------------------------------------------------------------------------
(* run_full_process lines 93-106 / WorkerThread.run lines 75-87 *)

PrepareOutput ==
    /\ pc = "start"
    /\ \E mkdir_ok \in BOOLEAN, unlink_ok \in BOOLEAN :
        LET must_unlink == mkdir_ok /\ output_file = "stale"
            next == IF ~mkdir_ok THEN "abort"
                    ELSE IF must_unlink THEN AfterUnlink(unlink_ok)
                    ELSE "process"
        IN  /\ output_file' = IF must_unlink /\ unlink_ok THEN "none" ELSE output_file
            /\ unlink_failed' = (must_unlink /\ ~unlink_ok)
            /\ env_failed' = (~mkdir_ok \/ (must_unlink /\ ~unlink_ok))
            /\ IF next = "abort"
               THEN ReportFailure
               ELSE /\ pc' = "process"
                    /\ UNCHANGED <<outcome, finished_signal>>
    /\ UNCHANGED <<outside, video_concat_list, audio_concat_list, entry,
                   found_existing, temp_dirs, run_state, run_ids, srt_file,
                   tts_unlinked, segment_dir, cleanup_temp,
                   default_slide_duration, temp_dir_exists, temp_dir_created,
                   caller_temp_run_dir, process_result, exported_images,
                   extracted_notes, image_paths, notes_list, image_dir,
                   export_log, audio_results, audio_files, tts_calls,
                   tts_failed, processed_data, seg_index, segments,
                   segment_files, base_video, subtitles, moved,
                   synthesis_success, fatal, after_fatal, stages_run,
                   stale_at_start, rmtree_failed>>

----------------------------------------------------------------------------
(* process_presentation *)

\* lines 346-368: the guards before any work, then temp_run_dir.mkdir
ProcessStart ==
    /\ pc = "process"
    /\ \E is_file \in BOOLEAN, mkdir_ok \in BOOLEAN :
        LET refused == ~is_file \/ VoiceIdPassed(entry) = "None"
            created == ~refused /\ mkdir_ok
        IN  /\ temp_dir_exists' = created
            /\ temp_dir_created' = created
            /\ env_failed' = (env_failed \/ ~is_file \/ (~refused /\ ~mkdir_ok))
            /\ IF created
               THEN /\ pc' = "export"
                    /\ UNCHANGED process_result
               ELSE /\ pc' = "returned"
                    /\ process_result' = "none_none"
    /\ UNCHANGED <<outside, video_concat_list, audio_concat_list, entry,
                   found_existing, temp_dirs, run_state, run_ids, srt_file,
                   tts_unlinked, segment_dir, cleanup_temp,
                   default_slide_duration, output_file, caller_temp_run_dir,
                   exported_images, extracted_notes, image_paths, notes_list,
                   image_dir, export_log, audio_results, audio_files,
                   tts_calls, tts_failed, processed_data, seg_index, segments,
                   segment_files, base_video, subtitles, moved,
                   synthesis_success, finished_signal, outcome, fatal,
                   after_fatal, stages_run, stale_at_start, unlink_failed,
                   rmtree_failed>>

\* export_slides_with_powerpoint: slide.Export left slide_<n>.png for the slides
\* in written; ok is FALSE when the function returned None or raised (a COM
\* error outside the per-slide try, also after slides were exported)
PowerPointOutcomes == [written : SUBSET Ordinals, ok : BOOLEAN]

PowerPointDir(written) ==
    [n \in FileNames |-> IF n \in written THEN Rendered("ppt", n) ELSE NoImage]

\* exported_files of a call that returned
PowerPointResult(o) == IF o.ok THEN Ascending(o.written) ELSE <<>>

\* the descending sequence of the members of a set of raw names: page order
RECURSIVE PageOrder(_)
PageOrder(S) ==
    IF S = {} THEN <<>>
    ELSE LET m == CHOOSE x \in S : \A y \in S : x >= y
         IN <<m>> \o PageOrder(S \ {m})

\* sorted(output_dir.glob("slide_*.png")): '-' sorts before the digits, so the
\* pdf2image files come first, in page order (their numbers are zero-padded);
\* then the slide_<n>.png files
SortedGlob(dir) ==
    PageOrder({n \in RawNames : dir[n] # NoImage})
        \o Ascending({n \in ImageNames : dir[n] # NoImage})

\* export_slides_with_libreoffice lines 151-165: the rename loop over the rest
\* of the sorted glob result; the next entry becomes slide_<slide_number>.png
RECURSIVE RenameImages(_, _, _, _)
RenameImages(dir, exported_files, rest, slide_number) ==
    IF rest = <<>>
    THEN [dir |-> dir, exported_files |-> exported_files]
    ELSE LET old_path == Head(rest)
             new_path == slide_number
             unlinked == IF dir[new_path] # NoImage /\ old_path # new_path
                         THEN [dir EXCEPT ![new_path] = NoImage]
                         ELSE dir
         IN IF unlinked[old_path] = NoImage
            THEN \* rename raises OSError: the old path is listed
                 RenameImages(unlinked, Append(exported_files, old_path),
                              Tail(rest), slide_number + 1)
            ELSE IF old_path = new_path
            THEN RenameImages(unlinked, Append(exported_files, new_path),
                              Tail(rest), slide_number + 1)
            ELSE RenameImages([unlinked EXCEPT ![new_path] = unlinked[old_path],
                                               ![old_path] = NoImage],
                              Append(exported_files, new_path),
                              Tail(rest), slide_number + 1)

\* export_slides_with_libreoffice lines 132-172 on an output directory dir, once
\* the PDF exists: pdf2image writes one file per page, then the glob and the
\* renames
LibreOfficeExport(dir, pages) ==
    LET converted == [n \in FileNames |->
                        IF n \in RawNames /\ -n <= pages
                        THEN Rendered("lo", -n) ELSE dir[n]]
    IN  RenameImages(converted, <<>>, SortedGlob(converted), 1)

\* lines 372-416: the strategy chain; <<>> stands for None and for []
ChooseImages(windows, lo_available, ppt, lo) ==
    IF windows
    THEN IF ppt # <<>> THEN ppt
         ELSE IF lo_available THEN lo ELSE <<>>
    ELSE IF lo_available THEN lo ELSE <<>>

\* lines 370-426 for a deck of slides slides; the PDF LibreOffice writes has one
\* page per slide; pages = 0: export_slides_with_libreoffice returned None
\* before any image was written (soffice missing, failed or timed out, no PDF)
ExportSlides ==
    /\ pc = "export"
    /\ \E slides \in Ordinals, windows \in BOOLEAN, lo_available \in BOOLEAN,
          o \in PowerPointOutcomes, pages \in 0..MaxSlides :
        LET ppt == IF windows THEN PowerPointResult(o) ELSE <<>>
            written == IF windows THEN o.written ELSE {}
            lo_called == lo_available /\ ppt = <<>>
            lo_run == LibreOfficeExport(PowerPointDir(written), pages)
            lo == IF pages > 0 THEN lo_run.exported_files ELSE <<>>
            images == ChooseImages(windows, lo_available, ppt, lo)
        IN  /\ o.written \subseteq 1..slides
            /\ pages \in {0, slides}
            /\ image_paths' = images
            /\ exported_images' = images
            /\ image_dir' = IF lo_called /\ pages > 0 THEN lo_run.dir
                            ELSE PowerPointDir(written)
            /\ export_log' =
                 [slides        |-> slides,
                  exporter_used |-> IF images = <<>> THEN "None"
                                    ELSE IF ppt # <<>> THEN "PowerPoint COM"
                                    ELSE "LibreOffice",
                  ppt_written   |-> written,
                  lo_pages      |-> IF lo_called THEN pages ELSE 0]
            /\ IF images = <<>>
               THEN /\ fatal' = "export"
                    /\ env_failed' = TRUE
                    /\ process_result' = "none_dir"
                    /\ pc' = "returned"
               ELSE /\ pc' = "notes"
                    /\ env_failed' = (env_failed
                                        \/ (windows /\ ppt = <<>>)
                                        \/ (windows /\ written # 1..slides))
                    /\ UNCHANGED <<fatal, process_result>>
    /\ Ran({"export"})
    /\ UNCHANGED <<outside, video_concat_list, audio_concat_list, entry,
                   found_existing, temp_dirs, run_state, run_ids, srt_file,
                   tts_unlinked, segment_dir, cleanup_temp,
                   default_slide_duration, output_file, temp_dir_exists,
                   temp_dir_created, caller_temp_run_dir, extracted_notes,
                   notes_list, audio_results, audio_files, tts_calls,
                   tts_failed, processed_data, seg_index, segments,
                   segment_files, base_video, subtitles, moved,
                   synthesis_success, finished_signal, outcome, stale_at_start,
                   unlink_failed, rmtree_failed>>

\* extract_speaker_notes: one stripped text per slide
StrippedNotes(raw) == [i \in 1..Len(raw) |-> StripNote(raw[i])]

\* after extract_speaker_notes returned
AfterNotesIgnored(failed) == "align"

AfterNotes(failed) == IF failed THEN "return" ELSE "align"

\* lines 429-434
ExtractNotes ==
    /\ pc = "notes"
    /\ \E failed \in BOOLEAN, raw \in SeqsUpTo(NoteTexts, MaxSlides) :
        /\ failed => raw = <<>>
        /\ notes_list' = StrippedNotes(raw)
        /\ extracted_notes' = StrippedNotes(raw)
        /\ fatal' = IF failed THEN "notes" ELSE fatal
        /\ env_failed' = (env_failed \/ failed)
        /\ IF AfterNotes(failed) = "return"
           THEN /\ process_result' = "none_dir"
                /\ pc' = "returned"
           ELSE /\ pc' = "align"
                /\ UNCHANGED process_result
    /\ Ran({"notes"})
    /\ UNCHANGED <<outside, video_concat_list, audio_concat_list, entry,
                   found_existing, temp_dirs, run_state, run_ids, srt_file,
                   tts_unlinked, segment_dir, cleanup_temp,
                   default_slide_duration, output_file, temp_dir_exists,
                   temp_dir_created, caller_temp_run_dir, exported_images,
                   image_paths, image_dir, export_log, audio_results,
                   audio_files, tts_calls, tts_failed, processed_data,
                   seg_index, segments, segment_files, base_video, subtitles,
                   moved, synthesis_success, finished_signal, outcome,
                   stale_at_start, unlink_failed, rmtree_failed>>

\* lines 436-444
AlignSlides ==
    /\ pc = "align"
    /\ LET num_images == Len(image_paths)
           num_notes == Len(notes_list)
           min_count == MinCount(num_images, num_notes)
       IN  IF num_images # num_notes
           THEN /\ image_paths' = Prefix(image_paths, min_count)
                /\ notes_list' = Prefix(notes_list, min_count)
           ELSE UNCHANGED <<image_paths, notes_list>>
    /\ pc' = "tts"
    /\ UNCHANGED <<outside, video_concat_list, audio_concat_list, entry,
                   found_existing, temp_dirs, run_state, run_ids, srt_file,
                   tts_unlinked, segment_dir, cleanup_temp,
                   default_slide_duration, output_file, temp_dir_exists,
                   temp_dir_created, caller_temp_run_dir, process_result,
                   exported_images, extracted_notes, image_dir, export_log,
                   audio_results, audio_files, tts_calls, tts_failed,
                   processed_data, seg_index, segments, segment_files,
                   base_video, subtitles, moved, synthesis_success,
                   finished_signal, outcome, fatal, after_fatal, stages_run,
                   env_failed, stale_at_start, unlink_failed, rmtree_failed>>

\* generate_audio_segments lines 279-331: one iteration of the loop
SynthesizeSlide ==
    /\ pc = "tts"
    /\ Len(audio_results) < Len(notes_list)
    /\ LET n == Len(audio_results) + 1
           text == notes_list[n]
       IN  IF IsBlank(text)
           THEN /\ audio_results' = Append(audio_results, <<NoPath, NoDuration>>)
                /\ UNCHANGED <<audio_files, tts_calls, tts_failed, env_failed,
                               tts_unlinked>>
           ELSE \E tts \in TtsOutcomes, probe \in ProbeOutputs :
                LET generated == generate_segment_audio(tts)
                    success == generated.result
                    file == generated.file
                    duration_sec == IF success THEN get_audio_duration(file, probe)
                                    ELSE NoDuration
                IN  /\ audio_files' = [audio_files EXCEPT ![n] = file]
                    /\ tts_calls' = tts_calls \cup {n}
                    /\ tts_unlinked' = IF generated.unlinked
                                       THEN tts_unlinked \cup {n}
                                       ELSE tts_unlinked
                    /\ tts_failed' = IF success THEN tts_failed
                                     ELSE tts_failed \cup {n}
                    /\ env_failed' = (env_failed \/ ~success
                                        \/ duration_sec = NoDuration)
                    /\ audio_results' =
                         Append(audio_results,
                                SegmentAudioResult(n, success, duration_sec))
    /\ Ran({"synthesis"})
    /\ UNCHANGED <<outside, video_concat_list, audio_concat_list, entry,
                   found_existing, temp_dirs, run_state, run_ids, srt_file,
                   segment_dir, pc, cleanup_temp, default_slide_duration,
                   output_file, temp_dir_exists, temp_dir_created,
                   caller_temp_run_dir, process_result, exported_images,
                   extracted_notes, image_paths, notes_list, image_dir,
                   export_log, processed_data, seg_index, segments,
                   segment_files, base_video, subtitles, moved,
                   synthesis_success, finished_signal, outcome, fatal,
                   stale_at_start, unlink_failed, rmtree_failed>>

\* lines 449-501: the loop is over, the records are assembled and returned
CombineResults ==
    /\ pc = "tts"
    /\ Len(audio_results) = Len(notes_list)
    /\ processed_data' = [i \in 1..Len(notes_list) |->
                            SlideData(i, image_paths, notes_list, audio_results)]
    /\ process_result' = "data"
    /\ pc' = "returned"
    /\ UNCHANGED <<outside, video_concat_list, audio_concat_list, entry,
                   found_existing, temp_dirs, run_state, run_ids, srt_file,
                   tts_unlinked, segment_dir, cleanup_temp,
                   default_slide_duration, output_file, temp_dir_exists,
                   temp_dir_created, caller_temp_run_dir, exported_images,
                   extracted_notes, image_paths, notes_list, image_dir,
                   export_log, audio_results, audio_files, tts_calls,
                   tts_failed, seg_index, segments, segment_files, base_video,
                   subtitles, moved, synthesis_success, finished_signal,
                   outcome, fatal, after_fatal, stages_run, env_failed,
                   stale_at_start, unlink_failed, rmtree_failed>>

----------------------------------------------------------------------------
(* The caller receives process_presentation's result:                       *)
(* run_full_process lines 111-127 / WorkerThread.run lines 93-103            *)

HandleProcessResult ==
    /\ pc = "returned"
    /\ caller_temp_run_dir' = (process_result # "none_none")
    /\ IF process_result = "data"
       THEN /\ pc' = "video"
            /\ UNCHANGED <<outcome, finished_signal, temp_dir_exists,
                           rmtree_failed>>
       ELSE /\ ReportFailure
            /\ \E rmtree_ok \in BOOLEAN :
                 LET removes == RemovesTempOnProcessFailure(
                                    entry, caller_temp_run_dir',
                                    temp_dir_exists, cleanup_temp)
                 IN  /\ temp_dir_exists' = IF removes /\ rmtree_ok THEN FALSE
                                           ELSE temp_dir_exists
                     /\ rmtree_failed' = (removes /\ ~rmtree_ok)
    /\ UNCHANGED <<outside, video_concat_list, audio_concat_list, entry,
                   found_existing, temp_dirs, run_state, run_ids, srt_file,
                   tts_unlinked, segment_dir, cleanup_temp,
                   default_slide_duration, output_file, temp_dir_created,
                   process_result, exported_images, extracted_notes,
                   image_paths, notes_list, image_dir, export_log,
                   audio_results, audio_files, tts_calls, tts_failed,
                   processed_data, seg_index, segments, segment_files,
                   base_video, subtitles, moved, synthesis_success, fatal,
                   after_fatal, stages_run, env_failed, stale_at_start,
                   unlink_failed>>

----------------------------------------------------------------------------
(* video_synthesizer.py: create_video_from_data and what it calls *)

\* lines 501-510
VideoStart ==
    /\ pc = "video"
    /\ \E ffmpeg_resolved \in BOOLEAN :
        IF processed_data = <<>> \/ ~ffmpeg_resolved
        THEN /\ synthesis_success' = "False"
             /\ pc' = "synth_returned"
             /\ env_failed' = (env_failed \/ ~ffmpeg_resolved)
        ELSE /\ pc' = "segments"
             /\ UNCHANGED <<synthesis_success, env_failed>>
    /\ UNCHANGED <<outside, video_concat_list, audio_concat_list, entry,
                   found_existing, temp_dirs, run_state, run_ids, srt_file,
                   tts_unlinked, segment_dir, cleanup_temp,
                   default_slide_duration, output_file, temp_dir_exists,
                   temp_dir_created, caller_temp_run_dir, process_result,
                   exported_images, extracted_notes, image_paths, notes_list,
                   image_dir, export_log, audio_results, audio_files,
                   tts_calls, tts_failed, processed_data, seg_index, segments,
                   segment_files, base_video, subtitles, moved,
                   finished_signal, outcome, fatal, after_fatal, stages_run,
                   stale_at_start, unlink_failed, rmtree_failed>>

\* lines 529-539: clip_duration
ClipDuration(duration, default) ==
    IF duration # NoDuration /\ duration > NEGLIGIBLE THEN duration ELSE default

\* line 547: audio_path if clip_duration == duration else None
SegmentAudioArgAlways(audio_path, clip_duration, duration) == audio_path

SegmentAudioArg(audio_path, clip_duration, duration) ==
    IF clip_duration = duration THEN audio_path ELSE NoPath

\* create_video_segment line 326: whether phase 2 muxes the audio
MuxesAudio(audio_path, files, duration) ==
    audio_path # NoPath /\ files[audio_path] = "ok" /\ duration > NEGLIGIBLE

\* what the two phases of create_video_segment can end in: ffmpeg succeeds or
\* exits with an error; the phase that writes output_path (the mux, or
\* shutil.move of the silent clip) can fail with nothing at output_path or with
\* an incomplete file left there; the unlink of the temporary clip can fail
SegmentOutcomes ==
    [step1 : {"ok", "failed"},
     step2 : {"ok", "failed", "failed_partial"},
     unlink_ok : BOOLEAN]

\* create_video_segment lines 270-373: phase 1 renders the silent clip to
\* .temp_video.mp4, phase 2 muxes the audio into output_path or moves the silent
\* clip there; the temporary clip is unlinked after a failed phase 1, after the
\* mux (finally clause) and after a failed move
create_video_segment(duration, audio_path, files, o) ==
    LET step1_success == o.step1 = "ok"
        step2_success == step1_success /\ o.step2 = "ok"
        muxes == MuxesAudio(audio_path, files, duration)
    IN  [success |-> step1_success /\ step2_success,
         audio   |-> step1_success /\ step2_success /\ muxes,
         target  |-> IF ~step1_success THEN "none"
                     ELSE IF o.step2 = "ok" THEN "ok"
                     ELSE IF o.step2 = "failed_partial" THEN "partial"
                     ELSE "none",
         temp    |-> IF step1_success /\ ~muxes /\ step2_success THEN FALSE
                     ELSE ~o.unlink_ok]

\* lines 551-555: what the loop does after create_video_segment returned
AfterSegmentNeverAborts(success) == "continue"

AfterSegment(success) == IF success THEN "continue" ELSE "return"

\* line 521: image_path_str and Path(image_path_str).is_file()
ImageIsFile(data) ==
    data.image_path # NoPath /\ image_dir[data.image_path] # NoImage

\* line 526: audio_path, None unless the file exists
AudioPathIfFile(data) ==
    IF data.audio_path # NoPath /\ audio_files[data.audio_path] # "none"
    THEN data.audio_path ELSE NoPath

\* lines 514-555: one iteration of the segment loop
BuildSegment ==
    /\ pc = "segments"
    /\ seg_index <= Len(processed_data)
    /\ LET data == processed_data[seg_index]
           slide_num == data.slide_number
           last == seg_index = Len(processed_data)
           image_ok == ImageIsFile(data)
           audio_path == AudioPathIfFile(data)
           duration == data.audio_duration
           clip_duration == ClipDuration(duration, default_slide_duration)
           audio_arg == SegmentAudioArg(audio_path, clip_duration, duration)
       IN  IF ~image_ok
           THEN /\ seg_index' = seg_index + 1
                /\ pc' = IF last THEN "concat" ELSE pc
                /\ UNCHANGED <<segments, segment_files, synthesis_success,
                               fatal, env_failed, after_fatal, stages_run,
                               segment_dir>>
           ELSE \E o \in SegmentOutcomes :
                LET built == create_video_segment(clip_duration, audio_arg,
                                                  audio_files, o)
                IN  /\ Ran({"segment"})
                    /\ segment_dir' =
                         [segment_dir EXCEPT ![slide_num] =
                             [target |-> built.target, temp |-> built.temp]]
                    /\ env_failed' = (env_failed \/ ~built.success)
                    /\ fatal' = IF built.success THEN fatal ELSE "segment"
                    /\ IF built.success
                       THEN /\ segment_files' = Append(segment_files, slide_num)
                            /\ segments' = Append(segments,
                                             [slide    |-> slide_num,
                                              duration |-> clip_duration,
                                              audio    |-> built.audio])
                       ELSE UNCHANGED <<segment_files, segments>>
                    /\ IF AfterSegment(built.success) = "return"
                       THEN /\ synthesis_success' = "False"
                            /\ pc' = "synth_returned"
                            /\ UNCHANGED seg_index
                       ELSE /\ seg_index' = seg_index + 1
                            /\ pc' = IF last THEN "concat" ELSE pc
                            /\ UNCHANGED synthesis_success
    /\ UNCHANGED <<outside, video_concat_list, audio_concat_list, entry,
                   found_existing, temp_dirs, run_state, run_ids, srt_file,
                   tts_unlinked, cleanup_temp, default_slide_duration,
                   output_file, temp_dir_exists, temp_dir_created,
                   caller_temp_run_dir, process_result, exported_images,
                   extracted_notes, image_paths, notes_list, image_dir,
                   export_log, audio_results, audio_files, tts_calls,
                   tts_failed, processed_data, base_video, subtitles, moved,
                   finished_signal, outcome, stale_at_start, unlink_failed,
                   rmtree_failed>>

\* lines 565-568: the lines of video_concat_list.txt, one per segment file
VideoConcatListReversed(files) ==
    [i \in 1..Len(files) |-> files[Len(files) + 1 - i]]

VideoConcatList(files) == [i \in 1..Len(files) |-> files[i]]

\* lines 557-579: the manifest is written and concatenate_videos is called; when
\* writing the manifest raises, concatenate_videos is not called
ConcatenateVideos ==
    /\ pc = "concat"
    /\ IF segment_files = <<>>
       THEN /\ synthesis_success' = "False"
            /\ pc' = "synth_returned"
            /\ UNCHANGED <<base_video, fatal, env_failed, after_fatal,
                           stages_run, video_concat_list>>
       ELSE \E list_ok \in BOOLEAN, concat_ok \in BOOLEAN :
            LET success_concat == list_ok /\ concat_ok
            IN  /\ Ran(IF list_ok THEN {"concat"} ELSE {})
                /\ video_concat_list' = IF list_ok THEN VideoConcatList(segment_files)
                                        ELSE video_concat_list
                /\ base_video' = success_concat
                /\ env_failed' = (env_failed \/ ~success_concat)
                /\ fatal' = IF success_concat THEN fatal ELSE "concat"
                /\ IF success_concat
                   THEN /\ pc' = "subtitles"
                        /\ UNCHANGED synthesis_success
                   ELSE /\ synthesis_success' = "False"
                        /\ pc' = "synth_returned"
    /\ UNCHANGED <<outside, audio_concat_list, entry, found_existing,
                   temp_dirs, run_state, run_ids, srt_file, tts_unlinked,
                   segment_dir, cleanup_temp, default_slide_duration,
                   output_file, temp_dir_exists, temp_dir_created,
                   caller_temp_run_dir, process_result, exported_images,
                   extracted_notes, image_paths, notes_list, image_dir,
                   export_log, audio_results, audio_files, tts_calls,
                   tts_failed, processed_data, seg_index, segments,
                   segment_files, subtitles, moved, finished_signal, outcome,
                   stale_at_start, unlink_failed, rmtree_failed>>

\* line 583: the audio paths of the records with audio_duration > 0.01
RECURSIVE AudioSegmentPaths(_)
AudioSegmentPaths(data) ==
    IF data = <<>> THEN <<>>
    ELSE LET d == Head(data)
         IN (IF d.audio_duration > NEGLIGIBLE THEN <<d.audio_path>> ELSE <<>>)
                \o AudioSegmentPaths(Tail(data))

\* generate_subtitles line 160: the paths that exist and exceed 100 bytes
RECURSIVE ValidAudioFiles(_, _)
ValidAudioFiles(paths, files) ==
    IF paths = <<>> THEN <<>>
    ELSE LET p == Head(paths)
         IN (IF p # NoPath /\ files[p] = "ok" THEN <<p>> ELSE <<>>)
                \o ValidAudioFiles(Tail(paths), files)

\* what generate_subtitles and the SRT check can end in, once there is audio to
\* transcribe: the audio concat failed, Whisper or the write failed, the SRT has
\* at most 5 bytes, the SRT has no text line, the SRT has a text line
AsrOutcomes == {"concat_failed", "asr_failed", "srt_tiny", "srt_no_text", "srt_text"}

\* the SRT file generate_subtitles leaves when it returns True
SrtWritten(asr) ==
    IF asr = "srt_tiny" THEN "tiny"
    ELSE IF asr = "srt_no_text" THEN "no_text"
    ELSE IF asr = "srt_text" THEN "text"
    ELSE "none"

\* lines 596-611: subtitles_generated and srt_is_valid folded into one state
SubtitleStateAnyLine(asr) ==
    IF asr \in {"concat_failed", "asr_failed"} THEN "gen_failed"
    ELSE IF asr \in {"srt_text", "srt_no_text"} THEN "valid"
    ELSE "invalid"

SubtitleState(asr) ==
    IF asr \in {"concat_failed", "asr_failed"} THEN "gen_failed"
    ELSE IF asr = "srt_text" THEN "valid"
    ELSE "invalid"

\* generate_subtitles lines 171-175: the lines of audio_concat_list.txt, one per
\* valid audio file
AudioConcatList(files) == [i \in 1..Len(files) |-> files[i]]

\* lines 581-611
GenerateSubtitles ==
    /\ pc = "subtitles"
    /\ IF \E i \in 1..Len(processed_data) :
             processed_data[i].audio_duration = NoDuration
       THEN \* None > 0.01 raises TypeError out of create_video_from_data
            /\ synthesis_success' = "raised"
            /\ pc' = "synth_returned"
            /\ UNCHANGED <<subtitles, env_failed, after_fatal, stages_run,
                           audio_concat_list, srt_file>>
       ELSE LET audio_segment_paths == AudioSegmentPaths(processed_data)
                valid_audio_files == ValidAudioFiles(audio_segment_paths, audio_files)
            IN  /\ pc' = "deliver"
                /\ UNCHANGED synthesis_success
                /\ IF audio_segment_paths = <<>>
                   THEN /\ subtitles' = "skipped"
                        /\ UNCHANGED <<env_failed, after_fatal, stages_run,
                                       audio_concat_list, srt_file>>
                   ELSE /\ Ran({"subtitles"})
                        /\ audio_concat_list' = AudioConcatList(valid_audio_files)
                        /\ IF valid_audio_files = <<>>
                           THEN /\ subtitles' = "gen_failed"
                                /\ UNCHANGED <<env_failed, srt_file>>
                           ELSE \E asr \in AsrOutcomes :
                                /\ subtitles' = SubtitleState(asr)
                                /\ srt_file' = SrtWritten(asr)
                                /\ env_failed' = (env_failed \/ asr # "srt_text")
    /\ UNCHANGED <<outside, video_concat_list, entry, found_existing,
                   temp_dirs, run_state, run_ids, tts_unlinked, segment_dir,
                   cleanup_temp, default_slide_duration, output_file,
                   temp_dir_exists, temp_dir_created, caller_temp_run_dir,
                   process_result, exported_images, extracted_notes,
                   image_paths, notes_list, image_dir, export_log,
                   audio_results, audio_files, tts_calls, tts_failed,
                   processed_data, seg_index, segments, segment_files,
                   base_video, moved, finished_signal, outcome, fatal,
                   stale_at_start, unlink_failed, rmtree_failed>>

\* lines 614-648: the file that is moved to output_video_path
DeliveredFileNoFallback(sub_state, burn_ok) ==
    IF sub_state = "valid" THEN (IF burn_ok THEN "subs" ELSE "none") ELSE "base"

DeliveredFile(sub_state, burn_ok) ==
    IF sub_state = "valid" /\ burn_ok THEN "subs" ELSE "base"

\* shutil.move of the finished file to output_video_path: it succeeds, or it
\* raises with nothing at the destination, or it raises with a file left at the
\* destination (the copy to another file system broke off, or the source could
\* not be removed after the copy)
MoveOutcomes == {"ok", "failed", "failed_partial"}

\* the file at output_video_path after the move of file
AfterMove(move, file, before) ==
    IF move = "ok" THEN file
    ELSE IF move = "failed_partial" THEN "partial"
    ELSE before

\* lines 613-648: add_subtitles when the SRT is valid, then shutil.move
Deliver ==
    /\ pc = "deliver"
    /\ \E burn_ok \in BOOLEAN, move \in MoveOutcomes :
        LET burning == subtitles = "valid"
            file == DeliveredFile(subtitles, burn_ok)
            move_ok == move = "ok"
            delivered == file # "none" /\ move_ok
        IN  /\ ~burning => burn_ok
            /\ Ran(IF burning THEN {"burn", "move"} ELSE {"move"})
            /\ subtitles' = IF burning
                            THEN (IF burn_ok THEN "burned" ELSE "burn_failed")
                            ELSE subtitles
            /\ moved' = IF file = "none" THEN "none"
                        ELSE IF move_ok THEN "ok" ELSE "failed"
            /\ output_file' = IF file = "none" THEN output_file
                              ELSE AfterMove(move, file, output_file)
            /\ base_video' = IF delivered THEN FALSE ELSE base_video
            /\ env_failed' = (env_failed \/ ~burn_ok \/ ~move_ok)
            /\ synthesis_success' = IF delivered THEN "True" ELSE "False"
    /\ pc' = "synth_returned"
    /\ UNCHANGED <<outside, video_concat_list, audio_concat_list, entry,
                   found_existing, temp_dirs, run_state, run_ids, srt_file,
                   tts_unlinked, segment_dir, cleanup_temp,
                   default_slide_duration, temp_dir_exists, temp_dir_created,
                   caller_temp_run_dir, process_result, exported_images,
                   extracted_notes, image_paths, notes_list, image_dir,
                   export_log, audio_results, audio_files, tts_calls,
                   tts_failed, processed_data, seg_index, segments,
                   segment_files, finished_signal, outcome, fatal,
                   stale_at_start, unlink_failed, rmtree_failed>>

----------------------------------------------------------------------------
(* The caller receives create_video_from_data's result:                     *)
(* run_full_process lines 136-158 / WorkerThread.run lines 113-146           *)

\* whether the caller removes the temporary directory after a success
RemovesTempOnSuccessAlways(e, has_dir, on_disk, cleanup) ==
    IF e = "cli" THEN TRUE ELSE has_dir /\ on_disk

RemovesTempOnSuccess(e, has_dir, on_disk, cleanup) ==
    IF e = "cli" THEN cleanup ELSE cleanup /\ has_dir /\ on_disk

\* WorkerThread.run lines 113-134: what the worker emits on finished_signal once
\* create_video_from_data returned: the except clause emits (False, msg) when
\* the result was falsy or an exception, the finally clause emits (True, path)
\* when success is set and the file exists
FinishedEmissionsUnguarded(e, success, reported) ==
    IF e = "gui"
    THEN (IF ~success THEN <<FALSE>> ELSE <<>>) \o <<TRUE>>
    ELSE <<>>

FinishedEmissions(e, success, reported) ==
    IF e = "gui"
    THEN (IF ~success THEN <<FALSE>> ELSE <<>>)
            \o (IF success /\ reported THEN <<TRUE>> ELSE <<>>)
    ELSE <<>>

Finish ==
    /\ pc = "synth_returned"
    /\ entry \in {"cli", "gui"}
    /\ LET success == synthesis_success = "True"
           reported == success /\ output_file # "none"
       IN  /\ outcome' = IF reported THEN "success"
                         ELSE IF entry = "cli" \/ ~success THEN "failure"
                         ELSE outcome
           /\ finished_signal' =
                finished_signal \o FinishedEmissions(entry, success, reported)
           /\ \E rmtree_ok \in BOOLEAN :
                LET removes == reported
                                /\ RemovesTempOnSuccess(entry, caller_temp_run_dir,
                                                        temp_dir_exists,
                                                        cleanup_temp)
                IN  /\ temp_dir_exists' = IF removes /\ rmtree_ok THEN FALSE
                                          ELSE temp_dir_exists
                    /\ rmtree_failed' = (removes /\ ~rmtree_ok)
    /\ pc' = "done"
    /\ UNCHANGED <<outside, video_concat_list, audio_concat_list, entry,
                   found_existing, temp_dirs, run_state, run_ids, srt_file,
                   tts_unlinked, segment_dir, cleanup_temp,
                   default_slide_duration, output_file, temp_dir_created,
                   caller_temp_run_dir, process_result, exported_images,
                   extracted_notes, image_paths, notes_list, image_dir,
                   export_log, audio_results, audio_files, tts_calls,
                   tts_failed, processed_data, seg_index, segments,
                   segment_files, base_video, subtitles, moved,
                   synthesis_success, fatal, after_fatal, stages_run,
                   env_failed, stale_at_start, unlink_failed>>

----------------------------------------------------------------------------
(* WorkerThread.stop, lines 149-151: callable while the thread runs *)

\* slide steps completed so far: narration syntheses and segment-loop iterations
SlideSteps == Len(audio_results) + (seg_index - 1)

Stop ==
    /\ entry = "gui"
    /\ pc # "done"
    /\ is_running
    /\ is_running' = FALSE
    /\ steps_at_stop' = SlideSteps
    /\ UNCHANGED <<hung, window, video_concat_list, audio_concat_list, entry,
                   found_existing, temp_dirs, run_state, run_ids, srt_file,
                   tts_unlinked, segment_dir, pc, cleanup_temp,
                   default_slide_duration, output_file, temp_dir_exists,
                   temp_dir_created, caller_temp_run_dir, process_result,
                   exported_images, extracted_notes, image_paths, notes_list,
                   image_dir, export_log, audio_results, audio_files,
                   tts_calls, tts_failed, processed_data, seg_index, segments,
                   segment_files, base_video, subtitles, moved,
                   synthesis_success, finished_signal, outcome, fatal,
                   after_fatal, stages_run, env_failed, stale_at_start,
                   unlink_failed, rmtree_failed>>

----------------------------------------------------------------------------
(* External tool calls that do not return.  subprocess.run waits for the     *)
(* child for ever unless it is given a timeout.                              *)

\* the timeout argument of each subprocess.run call, in seconds; 0: none
TimeoutOf(tool) == IF tool = "soffice" THEN 120 ELSE 0

\* the external tool calls the next step of the run makes
CallableTools ==
    IF pc = "export" THEN {"soffice"}
    ELSE IF pc = "tts" /\ Len(audio_results) < Len(notes_list)
    THEN IF IsBlank(notes_list[Len(audio_results) + 1]) THEN {} ELSE {"ffprobe"}
    ELSE IF pc = "segments" /\ seg_index <= Len(processed_data)
    THEN LET data == processed_data[seg_index]
             clip_duration == ClipDuration(data.audio_duration,
                                           default_slide_duration)
             audio_arg == SegmentAudioArg(AudioPathIfFile(data), clip_duration,
                                          data.audio_duration)
         IN  IF ~ImageIsFile(data) THEN {}
             ELSE IF MuxesAudio(audio_arg, audio_files, clip_duration)
             THEN {"ffmpeg_render", "ffmpeg_mux"}
             ELSE {"ffmpeg_render"}
    ELSE IF pc = "concat" /\ segment_files # <<>> THEN {"ffmpeg_concat"}
    ELSE IF pc = "subtitles"
            /\ \A i \in 1..Len(processed_data) :
                 processed_data[i].audio_duration # NoDuration
            /\ ValidAudioFiles(AudioSegmentPaths(processed_data), audio_files) # <<>>
    THEN {"ffmpeg_audio_concat"}
    ELSE IF pc = "deliver" /\ subtitles = "valid" THEN {"ffmpeg_subtitles"}
    ELSE {}

\* a tool called by the next step never exits on its own
ToolHangs ==
    /\ \E tool \in CallableTools :
        /\ hung' = tool
        /\ pc' = "hung"
    /\ UNCHANGED <<is_running, steps_at_stop, window, video_concat_list,
                   audio_concat_list, entry, found_existing, temp_dirs,
                   run_state, run_ids, srt_file, tts_unlinked, segment_dir,
                   cleanup_temp, default_slide_duration, output_file,
                   temp_dir_exists, temp_dir_created, caller_temp_run_dir,
                   process_result, exported_images, extracted_notes,
                   image_paths, notes_list, image_dir, export_log,
                   audio_results, audio_files, tts_calls, tts_failed,
                   processed_data, seg_index, segments, segment_files,
                   base_video, subtitles, moved, synthesis_success,
                   finished_signal, outcome, fatal, after_fatal, stages_run,
                   env_failed, stale_at_start, unlink_failed, rmtree_failed>>

\* ppt_exporter_libreoffice.py lines 99, 120-122: subprocess.TimeoutExpired is
\* caught, export_slides_with_libreoffice returns None and process_presentation
\* returns (None, temp_run_dir)
TimeoutExpired ==
    /\ pc = "hung"
    /\ TimeoutOf(hung) > 0
    /\ hung' = "none"
    /\ fatal' = "export"
    /\ env_failed' = TRUE
    /\ process_result' = "none_dir"
    /\ pc' = "returned"
    /\ Ran({"export"})
    /\ UNCHANGED <<is_running, steps_at_stop, window, video_concat_list,
                   audio_concat_list, entry, found_existing, temp_dirs,
                   run_state, run_ids, srt_file, tts_unlinked, segment_dir,
                   cleanup_temp, default_slide_duration, output_file,
                   temp_dir_exists, temp_dir_created, caller_temp_run_dir,
                   exported_images, extracted_notes, image_paths, notes_list,
                   image_dir, export_log, audio_results, audio_files,
                   tts_calls, tts_failed, processed_data, seg_index, segments,
                   segment_files, base_video, subtitles, moved,
                   synthesis_success, finished_signal, outcome, stale_at_start,
                   unlink_failed, rmtree_failed>>

----------------------------------------------------------------------------
(* gui_app.py MainWindow: start requests, worker threads and their           *)
(* finished_signal.  A modal QMessageBox runs a nested event loop: the       *)
(* handler that opened it continues when it is answered, clicks on the       *)
(* window are blocked meanwhile, queued signals are still delivered.         *)

Push(stack, d) == Append(stack, d)

Pop(stack) == SubSeq(stack, 1, Len(stack) - 1)

Top(stack) == stack[Len(stack)]

\* the threads whose run() has not returned
Alive == {t \in 1..MaxWorkers : threads[t] \in {"running", "emitted"}}

\* start_conversion lines 478-507: the button is clicked, the inputs are
\* validated, a warning or the network confirmation is shown
ClickStart ==
    /\ start_button
    /\ dialogs = <<>>
    /\ \E valid \in BOOLEAN :
         dialogs' = Push(dialogs, IF valid THEN "network" ELSE "warning")
    /\ UNCHANGED <<run, start_button, worker_thread, threads, signals>>

\* start_conversion lines 486-499: the warning is closed, the handler returns
DismissWarning ==
    /\ dialogs # <<>>
    /\ Top(dialogs) = "warning"
    /\ dialogs' = Pop(dialogs)
    /\ UNCHANGED <<run, start_button, worker_thread, threads, signals>>

\* start_conversion lines 506-543: Cancel returns; Yes disables the controls,
\* creates a WorkerThread, stores it in self.worker_thread and starts it
AnswerNetwork ==
    /\ dialogs # <<>>
    /\ Top(dialogs) = "network"
    /\ dialogs' = Pop(dialogs)
    /\ \E yes \in BOOLEAN :
         IF yes
         THEN /\ \E t \in 1..MaxWorkers : threads[t] = "unborn"
              /\ LET t == CHOOSE u \in 1..MaxWorkers :
                            /\ threads[u] = "unborn"
                            /\ \A v \in 1..MaxWorkers :
                                 threads[v] = "unborn" => u <= v
                 IN  /\ threads' = [threads EXCEPT ![t] = "running"]
                     /\ worker_thread' = t
              /\ start_button' = FALSE
         ELSE UNCHANGED <<start_button, worker_thread, threads>>
    /\ UNCHANGED <<run, signals>>

\* WorkerThread.run lines 119-134: the thread emits finished_signal, (False,
\* msg) from the except clause or (True, path) from the finally clause, and has
\* the rest of the finally clause before it
WorkerEmits ==
    /\ \E t \in 1..MaxWorkers, success \in BOOLEAN :
        /\ threads[t] = "running"
        /\ threads' = [threads EXCEPT ![t] = "emitted"]
        /\ signals' = Append(signals, [thread |-> t, success |-> success])
    /\ UNCHANGED <<run, start_button, dialogs, worker_thread>>

\* WorkerThread.run lines 125-146: run() returns, after the clean-up that
\* follows the emission, or without an emission when success is set and the
\* output file does not exist
WorkerReturns ==
    /\ \E t \in 1..MaxWorkers :
        /\ threads[t] \in {"running", "emitted"}
        /\ threads' = [threads EXCEPT ![t] = "finished"]
    /\ UNCHANGED <<run, start_button, dialogs, worker_thread, signals>>

\* on_conversion_finished lines 556-585: the queued signal reaches the slot,
\* which re-enables the controls and shows the result in a modal dialog
\* (QMessageBox.information on success, QMessageBox.critical on failure)
DeliverFinished ==
    /\ signals # <<>>
    /\ signals' = Tail(signals)
    /\ start_button' = TRUE
    /\ dialogs' = Push(dialogs, IF Head(signals).success THEN "information"
                                ELSE "critical")
    /\ UNCHANGED <<run, worker_thread, threads>>

\* on_conversion_finished line 586: the result dialog is closed
DismissResult ==
    /\ dialogs # <<>>
    /\ Top(dialogs) \in {"information", "critical"}
    /\ dialogs' = Pop(dialogs)
    /\ worker_thread' = NoThread
    /\ UNCHANGED <<run, start_button, threads, signals>>

----------------------------------------------------------------------------
(* Specifications *)

Next ==
    \/ PrepareOutput
    \/ ProcessStart
    \/ ExportSlides
    \/ ExtractNotes
    \/ AlignSlides
    \/ SynthesizeSlide
    \/ CombineResults
    \/ HandleProcessResult
    \/ VideoStart
    \/ BuildSegment
    \/ ConcatenateVideos
    \/ GenerateSubtitles
    \/ Deliver
    \/ Finish
    \/ Stop

Spec == Init /\ [][Next]_vars

----------------------------------------------------------------------------
(* create_video_from_data called on its own, as the module's __main__ block *)
(* does: any record list, any audio and image files on disk                 *)

\* audio_duration values of a record: None, zero, the threshold itself, a
\* measured duration
RecordDurations == {NoDuration, 0, NEGLIGIBLE, 2500}

\* the records a caller can pass for slide n
DirectRecords(n) ==
    [slide_number   : {n},
     image_path     : {n},
     notes          : {""},
     audio_path     : {NoPath, n},
     audio_duration : RecordDurations]

DirectData ==
    UNION {{d \in [1..k -> UNION {DirectRecords(n) : n \in Ordinals}] :
                \A i \in 1..k : d[i].slide_number = i} : k \in 0..MaxSlides}

InitDirect ==
    /\ entry = "direct"
    /\ pc = "video"
    /\ cleanup_temp = FALSE
    /\ default_slide_duration \in DefaultDurations
    /\ output_file = "none"
    /\ stale_at_start = FALSE
    /\ temp_dir_exists = TRUE
    /\ temp_dir_created = TRUE
    /\ caller_temp_run_dir = TRUE
    /\ process_result = "data"
    /\ exported_images = <<>>
    /\ extracted_notes = <<>>
    /\ image_paths = <<>>
    /\ notes_list = <<>>
    /\ processed_data \in DirectData
    /\ image_dir \in {[n \in FileNames |-> IF n \in S THEN Rendered("lo", n)
                                           ELSE NoImage] :
                        S \in SUBSET (1..Len(processed_data))}
    /\ export_log = NoExport
    /\ audio_files \in [Ordinals -> FileStates]
    /\ \A n \in Ordinals :
         (n > Len(processed_data) \/ processed_data[n].audio_path = NoPath)
            => audio_files[n] = "none"
    /\ audio_results = <<>>
    /\ tts_calls = {}
    /\ tts_failed = {}
    /\ seg_index = 1
    /\ segments = <<>>
    /\ segment_files = <<>>
    /\ base_video = FALSE
    /\ subtitles = "none"
    /\ moved = "none"
    /\ synthesis_success = "none"
    /\ finished_signal = <<>>
    /\ outcome = "none"
    /\ fatal = "none"
    /\ after_fatal = {}
    /\ stages_run = {}
    /\ env_failed = FALSE
    /\ unlink_failed = FALSE
    /\ rmtree_failed = FALSE
    /\ video_concat_list = <<>>
    /\ audio_concat_list = <<>>
    /\ is_running = TRUE
    /\ steps_at_stop = 0
    /\ hung = "none"
    /\ found_existing = {}
    /\ temp_dirs = {}
    /\ run_state = [r \in Runs |-> "idle"]
    /\ run_ids = [r \in Runs |-> NoRunId]
    /\ srt_file = "none"
    /\ tts_unlinked = {}
    /\ segment_dir = EmptySegmentDir
    /\ start_button = TRUE
    /\ dialogs = <<>>
    /\ worker_thread = NoThread
    /\ threads = [t \in 1..MaxWorkers |-> "unborn"]
    /\ signals = <<>>

NextDirect ==
    \/ VideoStart
    \/ BuildSegment
    \/ ConcatenateVideos
    \/ GenerateSubtitles
    \/ Deliver

SpecDirect == InitDirect /\ [][NextDirect]_vars

----------------------------------------------------------------------------
(* The main window with its worker threads; the run of a worker is reduced   *)
(* to its emission and its return                                            *)

InitGui ==
    /\ Init
    /\ entry = "gui"
    /\ cleanup_temp
    /\ output_file = "none"

NextGui ==
    \/ ClickStart
    \/ DismissWarning
    \/ AnswerNetwork
    \/ WorkerEmits
    \/ WorkerReturns
    \/ DeliverFinished
    \/ DismissResult

SpecGui == InitGui /\ [][NextGui]_vars

----------------------------------------------------------------------------
(* A GUI run in which tool calls may fail to return.  The worker thread keeps *)
(* running whenever it has a step to take: weak fairness of the steps.        *)

InitLive ==
    /\ Init
    /\ entry = "gui"
    /\ cleanup_temp
    /\ output_file = "none"

NextLive ==
    \/ Next
    \/ ToolHangs
    \/ TimeoutExpired

SpecLive == InitLive /\ [][NextLive]_vars /\ WF_vars(NextLive)

----------------------------------------------------------------------------
(* Several invocations of process_presentation for the same deck and output  *)
(* directory, one after the other or at the same time; each is reduced to    *)
(* its temporary directory                                                   *)

\* process_presentation lines 358-368: run_id = uuid.uuid4().hex[:8], then
\* temp_run_dir.mkdir(parents=True, exist_ok=True)
MakeTempRunDir ==
    /\ \E r \in Runs, run_id \in RunIds, mkdir_ok \in BOOLEAN :
        /\ run_state[r] = "idle"
        /\ IF mkdir_ok
           THEN /\ run_ids' = [run_ids EXCEPT ![r] = run_id]
                /\ temp_dirs' = temp_dirs \cup {run_id}
                /\ found_existing' = IF run_id \in temp_dirs
                                     THEN found_existing \cup {r}
                                     ELSE found_existing
                /\ run_state' = [run_state EXCEPT ![r] = "working"]
           ELSE /\ run_state' = [run_state EXCEPT ![r] = "returned"]
                /\ UNCHANGED <<run_ids, temp_dirs, found_existing>>
    /\ UNCHANGED <<entry, pc, cleanup_temp, default_slide_duration,
                   output_file, temp_dir_exists, temp_dir_created,
                   caller_temp_run_dir, process_result, exported_images,
                   extracted_notes, image_paths, notes_list, image_dir,
                   export_log, audio_results, audio_files, tts_calls,
                   tts_failed, processed_data, seg_index, segments,
                   segment_files, base_video, subtitles, moved,
                   synthesis_success, finished_signal, outcome, fatal,
                   after_fatal, stages_run, env_failed, stale_at_start,
                   unlink_failed, rmtree_failed, video_concat_list,
                   audio_concat_list, is_running, steps_at_stop, segment_dir,
                   tts_unlinked, srt_file, hung, start_button, dialogs,
                   worker_thread, threads, signals>>

\* the invocation returns and its caller is done: the caller removes the
\* directory (shutil.rmtree after a success with clean-up set) or leaves it
RunReturns ==
    /\ \E r \in Runs, removed \in BOOLEAN :
        /\ run_state[r] = "working"
        /\ run_state' = [run_state EXCEPT ![r] = "returned"]
        /\ temp_dirs' = IF removed THEN temp_dirs \ {run_ids[r]} ELSE temp_dirs
    /\ UNCHANGED <<run_ids, found_existing>>
    /\ UNCHANGED <<entry, pc, cleanup_temp, default_slide_duration,
                   output_file, temp_dir_exists, temp_dir_created,
                   caller_temp_run_dir, process_result, exported_images,
                   extracted_notes, image_paths, notes_list, image_dir,
                   export_log, audio_results, audio_files, tts_calls,
                   tts_failed, processed_data, seg_index, segments,
                   segment_files, base_video, subtitles, moved,
                   synthesis_success, finished_signal, outcome, fatal,
                   after_fatal, stages_run, env_failed, stale_at_start,
                   unlink_failed, rmtree_failed, video_concat_list,
                   audio_concat_list, is_running, steps_at_stop, segment_dir,
                   tts_unlinked, srt_file, hung, start_button, dialogs,
                   worker_thread, threads, signals>>

NextRuns ==
    \/ MakeTempRunDir
    \/ RunReturns

SpecRuns == InitGui /\ [][NextRuns]_vars

----------------------------------------------------------------------------
(* Claims *)

\* the record of the slide a built segment belongs to
RecordOf(seg) == processed_data[seg.slide]

\* where entry k of audio_concat_list.txt starts in combined_audio_for_asr.wav:
\* the concat demuxer puts the files one after the other
RECURSIVE AudioOffset(_)
AudioOffset(k) ==
    IF k <= 1 THEN 0
    ELSE AudioOffset(k - 1)
            + processed_data[audio_concat_list[k - 1]].audio_duration

\* where segment k of video_concat_list.txt starts in base_video_no_subs.mp4
RECURSIVE SegmentOffset(_)
SegmentOffset(k) ==
    IF k <= 1 THEN 0
    ELSE SegmentOffset(k - 1) + segments[k - 1].duration

\* C1: the records process_presentation returns are the first min(I, K)
\* image/note pairs: as many records as the shorter of the exported image list
\* and the extracted notes list, record i numbered i and holding the i-th image
\* and the i-th note, nothing of the surplus of the longer list
C1_AlignedRecords ==
    process_result = "data" =>
        LET n == Min(Len(exported_images), Len(extracted_notes))
        IN  /\ Len(processed_data) = n
            /\ \A i \in 1..Min(n, Len(processed_data)) :
                 /\ processed_data[i].slide_number = i
                 /\ processed_data[i].image_path = exported_images[i]
                 /\ processed_data[i].notes = extracted_notes[i]

\* C1 witness: records were returned for a deck with more notes than images,
\* and for one with more images than notes the run would look the same; here the
\* surplus notes were dropped
C1_Witness ==
    /\ process_result = "data"
    /\ Len(extracted_notes) > Len(exported_images)
    /\ Len(processed_data) = Len(exported_images)

\* C2: every segment built for a record whose audio_duration is None or not
\* above 0.01 s lasts DEFAULT_SLIDE_DURATION and carries no audio, whatever
\* audio file exists and whatever the configured default is
C2_DefaultDurationSegmentsSilent ==
    \A k \in 1..Len(segments) :
        LET d == RecordOf(segments[k]).audio_duration
        IN  (d = NoDuration \/ d <= NEGLIGIBLE) =>
                /\ segments[k].duration = default_slide_duration
                /\ ~segments[k].audio

\* C2 witness: a segment was built for a record whose measured duration is
\* negligible and equals the configured default, with a full audio file on disk
C2_Witness ==
    \E k \in 1..Len(segments) :
        LET r == RecordOf(segments[k])
        IN  /\ r.audio_duration # NoDuration
            /\ r.audio_duration <= NEGLIGIBLE
            /\ r.audio_duration = default_slide_duration
            /\ r.audio_path # NoPath
            /\ audio_files[r.audio_path] = "ok"

\* C3: a slide with blank notes ends the synthesis stage with audio_path None
\* and audio_duration None, without a TTS call and without an audio file
C3_BlankNotesLeaveNoAudio ==
    process_result = "data" =>
        \A i \in 1..Len(processed_data) :
            IsBlank(processed_data[i].notes) =>
                /\ processed_data[i].audio_path = NoPath
                /\ processed_data[i].audio_duration = NoDuration
                /\ i \notin tts_calls
                /\ audio_files[i] = "none"

\* C4: a record whose duration could not be measured (generate_audio_segments
\* reported None) carries audio_duration None, never 0.0
C4_UnmeasuredDurationStaysAbsent ==
    process_result = "data" =>
        \A i \in 1..Len(processed_data) :
            audio_results[i][2] = NoDuration =>
                processed_data[i].audio_duration = NoDuration

\* C5: once a fatal event (export failed, notes extraction failed, a segment
\* build failed, concatenation failed) has occurred, no stage operation is
\* executed any more and the run ends in failure
C5_FatalStopsRun ==
    fatal # "none" =>
        /\ after_fatal = {}
        /\ pc = "done" => outcome = "failure"

\* C5 witness: a run ended after a segment build failed with slides left
C5_Witness ==
    /\ pc = "done"
    /\ fatal = "segment"
    /\ seg_index < Len(processed_data)
    /\ outcome = "failure"

\* C6: once the base video exists, whatever the subtitle stage ends in short of
\* burnt-in subtitles (skipped, generation failed, SRT without text, burn-in
\* failed), create_video_from_data returns True with the base video at the
\* output path, unless the final move failed
C6_SubtitlesBestEffort ==
    ( /\ pc \in {"synth_returned", "done"}
      /\ "concat" \in stages_run
      /\ fatal # "concat"
      /\ subtitles \in {"skipped", "gen_failed", "invalid", "burn_failed"}
      /\ moved # "failed" )
        => /\ synthesis_success = "True"
           /\ output_file = "base"

\* C6 witness: the burn-in failed and the base video was delivered
C6_Witness ==
    /\ pc = "synth_returned"
    /\ subtitles = "burn_failed"
    /\ synthesis_success = "True"
    /\ output_file = "base"

\* C7: when the TTS call of some slides failed or raised, process_presentation
\* still returns one record per aligned slide, the failed slides have no
\* audio_path, and their segments are silent and of the default duration
C7_NarrationFailureNotFatal ==
    /\ (tts_failed # {} /\ pc # "tts") =>
            /\ process_result = "data"
            /\ Len(processed_data) = Len(notes_list)
            /\ \A n \in tts_failed : processed_data[n].audio_path = NoPath
    /\ \A k \in 1..Len(segments) :
            segments[k].slide \in tts_failed =>
                /\ segments[k].duration = default_slide_duration
                /\ ~segments[k].audio

\* C7 witness: a run in which the TTS call of every slide failed ended in success
C7_Witness ==
    /\ pc = "done"
    /\ outcome = "success"
    /\ Len(processed_data) >= 1
    /\ tts_failed = 1..Len(processed_data)
    /\ Len(segments) = Len(processed_data)

\* C8: a command-line run in which no external operation failed ends in success
\* with the video at <output dir>/<stem>_final_video.mp4
C8_CliRunSucceeds ==
    (entry = "cli" /\ pc = "done" /\ ~env_failed) =>
        /\ outcome = "success"
        /\ output_file # "none"
        /\ FinalVideoFilename(entry) = "_final_video.mp4"

\* C9: a file found at the output path is deleted before any stage runs, and
\* when the deletion fails the run ends in failure with no temporary directory
\* created and no stage operation executed
C9_StaleOutputDeletedFirst ==
    /\ (stale_at_start /\ (temp_dir_created \/ stages_run # {} \/ tts_calls # {}))
            => output_file # "stale"
    /\ unlink_failed =>
            /\ pc = "done"
            /\ outcome = "failure"
            /\ ~temp_dir_created
            /\ stages_run = {}
            /\ tts_calls = {}

\* C9 witness: the deletion of the existing output file failed and the run ended
C9_Witness ==
    /\ stale_at_start
    /\ unlink_failed
    /\ pc = "done"

C11_SuccessIffOutputExists ==
    pc = "done" => (outcome = "success" <=> output_file # "none")

\* C12: one run of the GUI worker never emits both finished_signal(True, path)
\* and finished_signal(False, message)
C12_NeverBothSignals ==
    ~(TRUE \in Range(finished_signal) /\ FALSE \in Range(finished_signal))

\* C12 witness: a GUI run whose video synthesis was attempted has ended and
\* emitted on finished_signal
C12_Witness ==
    /\ entry = "gui"
    /\ pc = "done"
    /\ "segment" \in stages_run
    /\ synthesis_success = "False"
    /\ finished_signal # <<>>

\* C13: when PowerPoint failed after writing slide images and LibreOffice then
\* delivered the image list, the list is exactly LibreOffice's pages: one entry
\* per rendered page, entry i named slide_<i>.png and holding page i
C13_FallbackIsolated ==
    (export_log.exporter_used = "LibreOffice" /\ export_log.ppt_written # {}) =>
        /\ Len(exported_images) = export_log.lo_pages
        /\ \A i \in 1..Len(exported_images) :
             /\ exported_images[i] = i
             /\ image_dir[exported_images[i]] = Rendered("lo", i)

\* C14: once stop() was called on a running GUI conversion, the worker completes
\* at most the slide step that was in flight (no synthesis and no segment build
\* for a later slide) and the run ends without a final video
C14_StopHonored ==
    ~is_running =>
        /\ SlideSteps <= steps_at_stop + 1
        /\ pc = "done" => (outcome # "success" /\ output_file \notin {"base", "subs"})

\* C15: at most one worker thread is running at any time: no start request
\* creates a worker thread while another one has not returned from run()
C15_SingleConversion == Cardinality(Alive) <= 1

\* C16: an external tool call that does not return on its own still ends (its
\* timeout makes the stage report failure), so the run terminates
C16_HungCallsEnd == (pc = "hung") ~> (pc = "done")

\* C17: a run that ended in success has removed its temporary directory exactly
\* when clean-up was requested and the removal did not fail, and a failed
\* removal leaves the outcome as it is: success is reported (by the GUI worker
\* as the single emission finished_signal(True, path)) and the video is there
C17_CleanupOnSuccess ==
    /\ (pc = "done" /\ outcome = "success") =>
            /\ temp_dir_exists <=> (~cleanup_temp \/ rmtree_failed)
            /\ output_file \in {"base", "subs"}
            /\ entry = "gui" => finished_signal = <<TRUE>>
    /\ (pc = "done" /\ rmtree_failed /\ synthesis_success = "True")
            => outcome = "success"

\* C17 witness: clean-up was requested, the removal failed, success was reported
C17_Witness ==
    /\ pc = "done"
    /\ cleanup_temp
    /\ rmtree_failed
    /\ outcome = "success"
    /\ temp_dir_exists

\* C18: create_video_from_data, given records whose audio_path and/or
\* audio_duration is None, ends with a boolean result, never with an exception,
\* and every segment it builds for such a record is silent and lasts
\* DEFAULT_SLIDE_DURATION
C18_MissingFieldsHandled ==
    /\ synthesis_success # "raised"
    /\ \A k \in 1..Len(segments) :
         LET r == RecordOf(segments[k])
         IN  (r.audio_path = NoPath /\ r.audio_duration = NoDuration) =>
                 /\ segments[k].duration = default_slide_duration
                 /\ ~segments[k].audio

\* C19: whenever concatenate_videos is invoked, the manifest holds exactly one
\* segment for every slide record passed to create_video_from_data, in record
\* order: no record is left out of the video
C19_NoSlideSkipped ==
    "concat" \in stages_run =>
        /\ Len(video_concat_list) = Len(processed_data)
        /\ \A i \in 1..Min(Len(video_concat_list), Len(processed_data)) :
             video_concat_list[i] = processed_data[i].slide_number

\* C20: the segment paths of the video concatenation manifest and the audio
\* paths of the ASR audio concatenation list are each strictly ascending in
\* slide number and belong to records process_presentation returned
C20_OrderPreserved ==
    /\ \A i \in 1..Len(video_concat_list), j \in 1..Len(video_concat_list) :
         i < j => video_concat_list[i] < video_concat_list[j]
    /\ \A i \in 1..Len(audio_concat_list), j \in 1..Len(audio_concat_list) :
         i < j => audio_concat_list[i] < audio_concat_list[j]
    /\ \A i \in 1..Len(video_concat_list) :
         video_concat_list[i] \in 1..Len(processed_data)
    /\ \A i \in 1..Len(audio_concat_list) :
         /\ audio_concat_list[i] \in 1..Len(processed_data)
         /\ processed_data[audio_concat_list[i]].audio_path = audio_concat_list[i]

\* C20 witness: both lists were written with the entries of two slides
C20_Witness ==
    /\ entry = "gui"
    /\ Len(video_concat_list) >= 2
    /\ Len(audio_concat_list) >= 2

\* C21: whenever an export strategy returns a non-empty list for a deck of N
\* slides, the list has exactly N entries and entry i is slide_<i>.png holding
\* the image of slide i: a slide that failed to export or to be renamed makes
\* the strategy fail instead
C21_ExportAtomic ==
    export_log.exporter_used # "None" =>
        /\ Len(exported_images) = export_log.slides
        /\ \A i \in 1..Len(exported_images) :
             /\ exported_images[i] = i
             /\ image_dir[exported_images[i]].page = i

\* C22: whenever create_video_segment returned False (the render failed, the
\* mux failed or the move of the silent clip failed), nothing is at the
\* segment's output path and no .temp_video.mp4 file of the segment is left
C22_SegmentAtomic ==
    fatal = "segment" =>
        LET n == processed_data[seg_index].slide_number
        IN  /\ segment_dir[n].target = "none"
            /\ ~segment_dir[n].temp

\* C23: generate_segment_audio returned True only with a file of more than 100
\* bytes at output_path; whenever it returned False after calling the backend
\* (which raised, timed out, or left no file or a stub), no file is at
\* output_path; and every call returned to generate_audio_segments, which
\* recorded its result
C23_SegmentAudioAllOrNothing ==
    \A n \in tts_calls :
        /\ n <= Len(audio_results)
        /\ n \notin tts_failed => audio_files[n] = "ok"
        /\ n \in tts_failed => audio_files[n] = "none"

\* C23 witness: a call whose backend had left a file at output_path returned
\* False and the file is gone
C23_Witness ==
    \E n \in tts_unlinked :
        /\ n \in tts_failed
        /\ audio_files[n] = "none"
        /\ audio_results[n] = <<NoPath, NoDuration>>

\* C24: add_subtitles is invoked in a run exactly when generate_subtitles
\* returned True and left an SRT file of more than 5 bytes that has a text line
\* (not blank, not all digits, no '-->'); an SRT that is tiny or holds only
\* indices and timestamps never reaches the burn-in
C24_BurnInIffValidSrt ==
    /\ "burn" \in stages_run => srt_file = "text"
    /\ (pc \in {"synth_returned", "done"} /\ srt_file = "text")
            => "burn" \in stages_run
    /\ srt_file \in {"tiny", "no_text"}
            => subtitles \notin {"valid", "burned", "burn_failed"}

\* C24 witness: the SRT held only indices and timestamps, the burn-in was not
\* invoked and the base video was delivered
C24_Witness ==
    /\ pc = "synth_returned"
    /\ srt_file = "no_text"
    /\ "burn" \notin stages_run
    /\ "move" \in stages_run
    /\ output_file = "base"

\* C25: no two invocations of process_presentation have the same temp_run_dir,
\* and no invocation starts working in a directory that already existed
C25_TempDirsDistinct ==
    /\ \A r1 \in Runs, r2 \in Runs :
         (r1 # r2 /\ run_ids[r1] # NoRunId /\ run_ids[r2] # NoRunId)
            => run_ids[r1] # run_ids[r2]
    /\ found_existing = {}

\* C26: every narration in the concatenated ASR audio starts at the offset at
\* which its slide's segment starts in the base video (the subtitle timeline is
\* the video timeline), for every mix of narrated and silent slides
C26_SubtitleTimingMatchesVideo ==
    (audio_concat_list # <<>> /\ video_concat_list # <<>>) =>
        \A k \in 1..Len(audio_concat_list), j \in 1..Len(segments) :
            segments[j].slide = audio_concat_list[k]
                => AudioOffset(k) = SegmentOffset(j)

\* C27: every started GUI worker run eventually has emitted exactly one
\* finished_signal and has ended, whatever path it took (so that
\* on_conversion_finished re-enables the start button)
C27_ExactlyOneFinishedSignal ==
    <>(pc = "done" /\ Len(finished_signal) = 1)

\* C28: once the subtitle stage is over, a slide's narration is in the audio
\* that was transcribed exactly when it is muxed into the slide's segment of the
\* base video: no narration is transcribed for a silent or absent segment, and
\* no narrated segment is missing from the transcription input
C28_TranscribedIffMuxed ==
    subtitles # "none" =>
        \A n \in 1..Len(processed_data) :
            (n \in Range(audio_concat_list))
                <=> (\E j \in 1..Len(segments) :
                        segments[j].slide = n /\ segments[j].audio)

\* C29: every record process_presentation returns has an audio_duration that
\* is exactly 0.0 or above 0.01 s, a duration above 0.01 s comes with an
\* audio_path, and get_audio_duration returns None rather than a value in
\* [0, 0.01) for every file and every ffprobe output
C29_DurationZeroOrAudible ==
    /\ process_result = "data" =>
            \A i \in 1..Len(processed_data) :
                LET d == processed_data[i].audio_duration
                IN  /\ d = 0 \/ d > NEGLIGIBLE
                    /\ d > NEGLIGIBLE => processed_data[i].audio_path # NoPath
    /\ \A file \in FileStates, probe \in ProbeOutputs :
            LET d == get_audio_duration(file, probe)
            IN  d = NoDuration \/ d >= NEGLIGIBLE

\* C29 witness: records were returned, one of them for a narration whose file
\* exists and whose measured duration is exactly the threshold: it is recorded
\* with the duration 0.0
C29_Witness ==
    /\ process_result = "data"
    /\ \E i \in 1..Len(processed_data) :
         /\ processed_data[i].audio_path # NoPath
         /\ processed_data[i].audio_duration = 0
         /\ audio_results[i][2] = 0

\* C30: process_presentation called without a voice_id returns (None, None);
\* whenever it returns (None, None) no temporary directory was created and no
\* exporter, notes extractor or TTS call was made (no image or audio file
\* exists); after a failed export or a failed notes extraction it returns
\* (None, temp_run_dir) with the directory it created still on disk
C30_RefusalLeavesNothing ==
    /\ (VoiceIdPassed(entry) = "None" /\ process_result # "pending")
            => process_result = "none_none"
    /\ process_result = "none_none" =>
            /\ ~temp_dir_created
            /\ ~temp_dir_exists
            /\ stages_run = {}
            /\ tts_calls = {}
            /\ image_dir = EmptyImageDir
            /\ \A n \in Ordinals : audio_files[n] = "none"
    /\ fatal \in {"export", "notes"} =>
            /\ process_result = "none_dir"
            /\ temp_dir_created
            /\ pc = "returned" => temp_dir_exists

\* C30 witness: a command-line run, which passes no voice_id, got (None, None)
\* back from process_presentation for an existing input file
C30_Witness ==
    /\ entry = "cli"
    /\ pc = "returned"
    /\ process_result = "none_none"
    /\ ~env_failed

====
